---- MODULE Spec2Model ----
(***************************************************************************)
(* HC-SR04 ultrasonic distance sensor node for Node-RED.                   *)
(*                                                                         *)
(* Two variants of the node are modelled side by side:                     *)
(*   "rpi"   src/hcsr04.js          rpi-gpio, asynchronous writes,         *)
(*                                  gpio.on('change') edge events          *)
(*   "sysfs" src/unnamed/part_000   sysfs files, synchronous writes,       *)
(*                                  a 1 ms polling echoWatcher             *)
(* The variant is fixed in Init.  Every handler of the node (a timer       *)
(* callback, a write callback, an input message, an echo event, close) is  *)
(* one action that runs to completion, as on the Node.js event loop.       *)
(*                                                                         *)
(* Time is a clock `now` in microseconds that advances over a grid of      *)
(* instants and timer deadlines.  A due timer callback runs before the     *)
(* clock advances further; the callbacks of gpio.setup and gpio.write      *)
(* complete before the clock advances.                                     *)
(***************************************************************************)
EXTENDS Integers, Sequences, FiniteSets, TLC

VARIABLES
    variant,          \* "rpi" | "sysfs"
    now,              \* clock, microseconds since the node was constructed
    closed,           \* node.on('close') has run
    gpioState,        \* "pending" | "echo" | "ready" | "failed": pin set-up progress
    isInitialized,    \* sysfs: var isInitialized
    echoWatcher,      \* echo observation armed (sysfs: the setInterval handle;
                      \* rpi: the 'change' listener on a set-up echo pin)
    lastValue,        \* sysfs: var lastValue of the echoWatcher closure
    isReading,        \* var isReading
    startTime,        \* var startTime (hrtime in microseconds, NULL when null/undefined)
    measurementTimer, \* var measurementTimer: handle of the interval timer, or NULL
    intervalTimers,   \* the interval timers that are armed (set of handles)
    startupPending,   \* setTimeout(startMeasurements, 100) has not fired yet
    timeouts,         \* deadlines of the pending 100 ms safety timeouts, in arming order
    writeCb,          \* rpi: gpio.write calls whose callback has not run yet
    pulseTimers,      \* deadlines of the pending pulse-width timers
    trigger,          \* level of the trigger line
    sensor,           \* the HC-SR04: "idle" | "burst" (triggered, echo low) | "echo" (echo high)
    sensorStale,      \* the sensor's current activity answers the pulse of an earlier cycle
    status,           \* last node.status(...)
    msg,              \* last node.send(...)
    cyc,              \* history of the cycle started last
    halted,           \* history: 'stop' was handled and no 'start' since
    inFlightAtClose   \* history: close found a measurement awaiting its echo

vars == <<variant, now, closed, gpioState, isInitialized, echoWatcher, lastValue,
          isReading, startTime, measurementTimer, intervalTimers, startupPending,
          timeouts, writeCb, pulseTimers, trigger, sensor, sensorStale, status,
          msg, cyc, halted, inFlightAtClose>>

\* history of the commands
hvars == <<halted, inFlightAtClose>>

\* what triggerMeasurement and the echo handlers act on
mvars == <<isReading, startTime, timeouts, writeCb, pulseTimers, trigger, sensor,
           sensorStale, status, msg, cyc>>

\* the periodic scheduler
svars == <<measurementTimer, intervalTimers>>

\* set-up state
gvars == <<gpioState, isInitialized, echoWatcher>>

-----------------------------------------------------------------------------
\* Bounds of the model

MaxPeriods == 5      \* the clock runs over MaxPeriods coarse periods
MaxTimeouts == 2     \* safety timeouts pending at once

-----------------------------------------------------------------------------
\* Constants of the program

\* null / undefined
NULL == -1

\* setTimeout delays in milliseconds; the pulse-width timer is armed with 0.01,
\* which Node.js runs as a 1 ms timer
SAFETY_TIMEOUT_MS == 100
STARTUP_DELAY_MS == 100
INIT_DELAY_MS == 100
PULSE_DELAY_MS == 1
MIN_CM == 2
MAX_CM == 400

Ms(n) == n * 1000

\* process.hrtime.bigint() in microseconds: a positive, monotonic clock
hrtime == now + 1

\* JavaScript truthiness of startTime: null, undefined and 0n are falsy
Truthy(t) == t # NULL /\ t # 0

-----------------------------------------------------------------------------
\* The clock

CoarseStep == Ms(50)
MaxTime == MaxPeriods * CoarseStep
\* instants at a finer resolution, for the echo pulse widths, after FineStart
FineStart == Ms(STARTUP_DELAY_MS)
Offsets == {30, 1160, 23310}
Grid == {p * CoarseStep : p \in 0..MaxPeriods} \cup {FineStart + o : o \in Offsets}

\* rpi: the gpio.setup callbacks are still to come
SetupPending == variant = "rpi" /\ gpioState \in {"pending", "echo"}

SeqMin(s, dflt) == IF s = <<>> THEN dflt ELSE s[1]

Min2(a, b) == IF a <= b THEN a ELSE b

StartupDeadline == IF startupPending THEN Ms(STARTUP_DELAY_MS) ELSE MaxTime + 1

InitDeadline ==
    IF variant = "sysfs" /\ gpioState = "pending" THEN Ms(INIT_DELAY_MS) ELSE MaxTime + 1

\* the earliest deadline of a pending safety, start-up or initialisation timer;
\* these callbacks run at their deadline
NextDeadline ==
    Min2(SeqMin(timeouts, MaxTime + 1), Min2(StartupDeadline, InitDeadline))

\* the earliest deadline of a pending pulse-width timer; this callback runs at
\* the first instant of the grid at or after its deadline
PulseDeadline == SeqMin(pulseTimers, MaxTime + 1)

Tick ==
    /\ NextDeadline > now
    /\ PulseDeadline > now
    /\ writeCb = <<>>
    /\ ~SetupPending
    /\ \E t \in Grid \cup {NextDeadline} :
        /\ t > now
        /\ t <= NextDeadline
        /\ t <= MaxTime
        /\ \A g \in Grid : (g > now /\ g < t) => g < PulseDeadline
        /\ now' = t
    /\ UNCHANGED <<hvars, variant, closed, gvars, lastValue, mvars, svars, startupPending>>

-----------------------------------------------------------------------------
\* Status and messages

St(t) == [text |-> t, value |-> NULL]

NoMsg == [payload |-> NULL, topic |-> "", unit |-> ""]

\* cyc: start      the clock when the cycle was started
\*      firstRise  hrtime of the first rising edge the cycle's handlers saw
\*      stale      startTime was taken from an edge that answers an earlier pulse
\*      sent       messages sent while the cycle was the last one started
\*      timeouts   "timeout" statuses signalled likewise
\*      dur        the duration computed at the closing falling edge
\*      outcome    "none" | "reading" | "oor" | "timeout" | "ioerr" | "closed"
NoCycle ==
    [start |-> NULL, firstRise |-> NULL, stale |-> FALSE, sent |-> 0, timeouts |-> 0,
     dur |-> NULL, outcome |-> "none"]

-----------------------------------------------------------------------------
\* Distance computation.  A duration is a whole number of microseconds; a
\* distance is kept in hundredths of a centimetre after toFixed(2).

InRangeNoFloor(duration) == 10 * duration <= MAX_CM * 582

\* distance >= 2 && distance <= 400, where distance = duration / 2 / 29.1
InRange(duration) ==
    /\ 10 * duration >= MIN_CM * 582
    /\ 10 * duration <= MAX_CM * 582

toFixed2Truncating(duration) == (1000 * duration) \div 582

\* parseFloat(distance.toFixed(2)), in hundredths: duration / 58.2 * 100 rounded
\* to the nearest integer
toFixed2(duration) == (1000 * duration + 291) \div 582

-----------------------------------------------------------------------------
\* Echo edge handling

\* what the echo handlers act on
evars == <<isReading, startTime, status, msg, cyc>>

\* the body of the falling-edge branch once startTime is known to be set
completeMeasurementKeepReading ==
    LET duration == hrtime - startTime IN
    /\ isReading' = isReading
    /\ startTime' = startTime
    /\ IF InRange(duration)
       THEN /\ msg' = [payload |-> toFixed2(duration), topic |-> "distance", unit |-> "cm"]
            /\ status' = [text |-> "cm", value |-> toFixed2(duration)]
            /\ cyc' = [cyc EXCEPT !.sent = @ + 1, !.dur = duration, !.outcome = "reading"]
       ELSE /\ msg' = msg
            /\ status' = St("out of range")
            /\ cyc' = [cyc EXCEPT !.dur = duration, !.outcome = "oor"]

completeMeasurement ==
    LET duration == hrtime - startTime IN
    /\ isReading' = FALSE
    /\ startTime' = startTime
    /\ IF InRange(duration)
       THEN /\ msg' = [payload |-> toFixed2(duration), topic |-> "distance", unit |-> "cm"]
            /\ status' = [text |-> "cm", value |-> toFixed2(duration)]
            /\ cyc' = [cyc EXCEPT !.sent = @ + 1, !.dur = duration, !.outcome = "reading"]
       ELSE /\ msg' = msg
            /\ status' = St("out of range")
            /\ cyc' = [cyc EXCEPT !.dur = duration, !.outcome = "oor"]

\* "Rising edge - start timing"; `stale` records whose pulse the edge answers
risingEdge(stale) ==
    /\ startTime' = hrtime
    /\ cyc' = [cyc EXCEPT !.firstRise = (IF @ = NULL THEN hrtime ELSE @), !.stale = stale]
    /\ UNCHANGED <<isReading, status, msg>>

\* "Falling edge - calculate distance"
fallingEdge ==
    IF Truthy(startTime) THEN completeMeasurement ELSE UNCHANGED evars

\* rpi: the gpio.on('change') listener, called for the echo channel
changeListener(value, stale) ==
    IF ~isReading
    THEN UNCHANGED evars
    ELSE IF value THEN risingEdge(stale) ELSE fallingEdge

\* sysfs: the echoWatcher interval callback; `cur` is the level read from the
\* value file, readOk is FALSE when readFileSync throws
echoWatcherTick(cur, readOk, stale) ==
    IF ~isReading
    THEN UNCHANGED <<evars, lastValue>>
    ELSE IF ~readOk
    THEN UNCHANGED <<evars, lastValue>>
    ELSE /\ lastValue' = cur
         /\ IF lastValue # NULL /\ cur # lastValue
            THEN IF cur = 1 /\ lastValue = 0
                 THEN risingEdge(stale)
                 ELSE IF cur = 0 /\ lastValue = 1
                 THEN fallingEdge
                 ELSE UNCHANGED evars
            ELSE UNCHANGED evars

\* level of the echo line
echoLevel == IF sensor = "echo" THEN 1 ELSE 0

-----------------------------------------------------------------------------
\* triggerMeasurement

\* the HC-SR04 starts a burst when the trigger line is driven high while it is
\* idle; a sensor that is still busy goes on answering the earlier pulse
sensorAfterStart(ok) ==
    IF sensor = "idle"
    THEN /\ sensor' = (IF ok THEN "burst" ELSE "idle")
         /\ sensorStale' = FALSE
    ELSE /\ sensor' = sensor
         /\ sensorStale' = TRUE

\* the body of triggerMeasurement past its guard; ok: the write of HIGH to the
\* trigger pin succeeds
startCycleKeepStartTime(ok) ==
    /\ isReading' = (variant = "rpi" \/ ok)
    /\ startTime' = startTime
    /\ IF variant = "rpi"
       THEN /\ writeCb' = Append(writeCb, [level |-> 1, ok |-> ok])
            /\ pulseTimers' = pulseTimers
            /\ timeouts' = Append(timeouts, now + Ms(SAFETY_TIMEOUT_MS))
       ELSE /\ writeCb' = writeCb
            /\ pulseTimers' = (IF ok THEN Append(pulseTimers, now + Ms(PULSE_DELAY_MS))
                                     ELSE pulseTimers)
            /\ timeouts' = (IF ok THEN Append(timeouts, now + Ms(SAFETY_TIMEOUT_MS))
                                  ELSE timeouts)
    /\ trigger' = (IF ok THEN 1 ELSE trigger)
    /\ sensorAfterStart(ok)
    /\ cyc' = [NoCycle EXCEPT !.start = now,
                              !.outcome = (IF variant = "sysfs" /\ ~ok THEN "ioerr" ELSE "none")]
    /\ UNCHANGED <<status, msg>>

startCycle(ok) ==
    /\ isReading' = (variant = "rpi" \/ ok)
    /\ startTime' = NULL
    /\ IF variant = "rpi"
       THEN /\ writeCb' = Append(writeCb, [level |-> 1, ok |-> ok])
            /\ pulseTimers' = pulseTimers
            /\ timeouts' = Append(timeouts, now + Ms(SAFETY_TIMEOUT_MS))
       ELSE /\ writeCb' = writeCb
            /\ pulseTimers' = (IF ok THEN Append(pulseTimers, now + Ms(PULSE_DELAY_MS))
                                     ELSE pulseTimers)
            /\ timeouts' = (IF ok THEN Append(timeouts, now + Ms(SAFETY_TIMEOUT_MS))
                                  ELSE timeouts)
    /\ trigger' = (IF ok THEN 1 ELSE trigger)
    /\ sensorAfterStart(ok)
    /\ cyc' = [NoCycle EXCEPT !.start = now,
                              !.outcome = (IF variant = "sysfs" /\ ~ok THEN "ioerr" ELSE "none")]
    /\ UNCHANGED <<status, msg>>

\* the guard of triggerMeasurement: "if (isReading) return" and, in the sysfs
\* variant, "if (isReading || !isInitialized) return"
busy == isReading \/ (variant = "sysfs" /\ ~isInitialized)

triggerMeasurementUnguarded == \E ok \in BOOLEAN : startCycle(ok)

triggerMeasurement ==
    IF busy THEN UNCHANGED mvars ELSE \E ok \in BOOLEAN : startCycle(ok)

\* a request may start a cycle only while the clock and the timer table have room
\* for its safety timeout (the pending start-up call keeps one slot)
Room ==
    /\ now + Ms(SAFETY_TIMEOUT_MS) <= MaxTime
    /\ Len(timeouts) + (IF startupPending THEN 1 ELSE 0) < MaxTimeouts

-----------------------------------------------------------------------------
\* The trigger pulse and the safety timeout

\* rpi: the callback of a gpio.write on the trigger pin
WriteDone ==
    /\ variant = "rpi"
    /\ writeCb # <<>>
    /\ LET w == Head(writeCb) IN
        /\ writeCb' = Tail(writeCb)
        /\ IF w.ok
           THEN /\ pulseTimers' = (IF w.level = 1
                                   THEN Append(pulseTimers, now + Ms(PULSE_DELAY_MS))
                                   ELSE pulseTimers)
                /\ UNCHANGED <<isReading, cyc>>
           ELSE /\ isReading' = FALSE
                /\ cyc' = (IF isReading THEN [cyc EXCEPT !.outcome = "ioerr"] ELSE cyc)
                /\ pulseTimers' = pulseTimers
    /\ UNCHANGED <<hvars, variant, now, closed, gvars, lastValue, svars, startupPending,
                   startTime, timeouts, trigger, sensor, sensorStale, status, msg>>

\* the pulse-width timer: write LOW to the trigger pin
PulseTimeout ==
    /\ pulseTimers # <<>>
    /\ Head(pulseTimers) <= now
    /\ pulseTimers' = Tail(pulseTimers)
    /\ \E ok \in BOOLEAN :
        /\ trigger' = (IF ok THEN 0 ELSE trigger)
        /\ writeCb' = (IF variant = "rpi"
                       THEN Append(writeCb, [level |-> 0, ok |-> ok])
                       ELSE writeCb)
    /\ UNCHANGED <<hvars, variant, now, closed, gvars, lastValue, svars, startupPending,
                   isReading, startTime, timeouts, sensor, sensorStale, status, msg, cyc>>

safetyTimeoutKeepReading ==
    /\ isReading' = isReading
    /\ status' = (IF isReading THEN St("timeout") ELSE status)
    /\ cyc' = (IF isReading
               THEN [cyc EXCEPT !.timeouts = @ + 1, !.outcome = "timeout"]
               ELSE cyc)

\* a safety timeout callback that does not test isReading
safetyTimeoutUnguarded ==
    /\ isReading' = FALSE
    /\ status' = St("timeout")
    /\ cyc' = [cyc EXCEPT !.timeouts = @ + 1, !.outcome = "timeout"]

\* the body of the safety timeout callback
safetyTimeout ==
    IF isReading
    THEN /\ isReading' = FALSE
         /\ status' = St("timeout")
         /\ cyc' = [cyc EXCEPT !.timeouts = @ + 1, !.outcome = "timeout"]
    ELSE UNCHANGED <<isReading, status, cyc>>

SafetyTimeout ==
    /\ timeouts # <<>>
    /\ Head(timeouts) <= now
    /\ timeouts' = Tail(timeouts)
    /\ safetyTimeout
    /\ UNCHANGED <<hvars, variant, now, closed, gvars, lastValue, svars, startupPending,
                   startTime, writeCb, pulseTimers, trigger, sensor, sensorStale, msg>>

-----------------------------------------------------------------------------
\* Periodic scheduling and input messages

\* setInterval returns a handle that is not armed: the least one
NewHandle(armed) ==
    LET free == (1..(Cardinality(armed) + 1)) \ armed
    IN  CHOOSE h \in free : \A g \in free : h <= g

\* startMeasurements, entered with the interval timers in `armed` armed
startMeasurements(armed) ==
    /\ triggerMeasurement
    /\ measurementTimer' = NewHandle(armed)
    /\ intervalTimers' = armed \cup {NewHandle(armed)}

\* clearInterval(measurementTimer)
Cleared == IF measurementTimer # NULL THEN intervalTimers \ {measurementTimer} ELSE intervalTimers

\* msg.payload: 'trigger', true, 'start', 'stop', and values the handler does not
\* name (a number, a word in another case, any other string)
Payloads == {"trigger", "true", "start", "stop", "other", "1", "Start"}

\* an input handler that takes every payload it does not name for a trigger
InputTriggersByDefault(payload) ==
    /\ ~closed
    /\ IF payload = "start"
       THEN /\ busy \/ Room
            /\ startMeasurements(Cleared)
       ELSE IF payload = "stop"
       THEN /\ intervalTimers' = Cleared
            /\ measurementTimer' = NULL
            /\ status' = St("stopped")
            /\ UNCHANGED <<isReading, startTime, timeouts, writeCb, pulseTimers, trigger,
                           sensor, sensorStale, msg, cyc>>
       ELSE /\ busy \/ Room
            /\ triggerMeasurement
            /\ UNCHANGED svars
    /\ halted' = (IF payload = "stop" THEN TRUE ELSE IF payload = "start" THEN FALSE ELSE halted)
    /\ UNCHANGED <<inFlightAtClose, variant, now, closed, gvars, lastValue, startupPending>>

\* node.on('input')
Input(payload) ==
    /\ ~closed
    /\ IF payload \in {"trigger", "true"}
       THEN /\ busy \/ Room
            /\ triggerMeasurement
            /\ UNCHANGED svars
       ELSE IF payload = "start"
       THEN /\ busy \/ Room
            /\ startMeasurements(Cleared)
       ELSE IF payload = "stop"
       THEN /\ intervalTimers' = Cleared
            /\ measurementTimer' = NULL
            /\ status' = St("stopped")
            /\ UNCHANGED <<isReading, startTime, timeouts, writeCb, pulseTimers, trigger,
                           sensor, sensorStale, msg, cyc>>
       ELSE UNCHANGED <<mvars, svars>>
    /\ halted' = (IF payload = "stop" THEN TRUE ELSE IF payload = "start" THEN FALSE ELSE halted)
    /\ UNCHANGED <<inFlightAtClose, variant, now, closed, gvars, lastValue, startupPending>>

\* the callback of setInterval in startMeasurements; node.interval is any
\* configured period, so an armed timer may fire at any instant
IntervalFire ==
    /\ intervalTimers # {}
    /\ busy \/ Room
    /\ triggerMeasurement
    /\ UNCHANGED <<hvars, variant, now, closed, gvars, lastValue, svars, startupPending>>

\* setTimeout(startMeasurements, 100); in the sysfs variant the initialisation
\* timer was armed first with the same delay and runs first
StartupTimeout ==
    /\ startupPending
    /\ now >= Ms(STARTUP_DELAY_MS)
    /\ variant = "sysfs" => gpioState # "pending"
    /\ startupPending' = FALSE
    /\ startMeasurements(intervalTimers)
    /\ UNCHANGED <<hvars, variant, now, closed, gvars, lastValue>>

-----------------------------------------------------------------------------
\* Pin set-up

\* rpi: callback of gpio.setup(triggerPin, DIR_OUT, ...)
SetupTriggerDone ==
    /\ variant = "rpi"
    /\ gpioState = "pending"
    /\ \E ok \in BOOLEAN :
        IF ok
        THEN gpioState' = "echo" /\ status' = status
        ELSE gpioState' = "failed" /\ status' = St("trigger pin setup failed")
    /\ UNCHANGED <<hvars, variant, now, closed, isInitialized, echoWatcher, lastValue, svars,
                   startupPending, isReading, startTime, timeouts, writeCb, pulseTimers,
                   trigger, sensor, sensorStale, msg, cyc>>

\* rpi: callback of gpio.setup(echoPin, DIR_IN, EDGE_BOTH, ...)
SetupEchoDone ==
    /\ variant = "rpi"
    /\ gpioState = "echo"
    /\ \E ok \in BOOLEAN :
        IF ok
        THEN gpioState' = "ready" /\ echoWatcher' = TRUE /\ status' = St("ready")
        ELSE gpioState' = "failed" /\ echoWatcher' = echoWatcher
             /\ status' = St("echo pin setup failed")
    /\ UNCHANGED <<hvars, variant, now, closed, isInitialized, lastValue, svars,
                   startupPending, isReading, startTime, timeouts, writeCb, pulseTimers,
                   trigger, sensor, sensorStale, msg, cyc>>

\* sysfs: the steps of initializeGpio that can fail, and "ok"
InitOutcomes ==
    {"ok", "failed to export trigger pin", "failed to set trigger direction",
     "failed to initialize trigger", "failed to export echo pin",
     "failed to set echo direction", "edge"}

\* sysfs: setTimeout(function() { initializeGpio() }, 100)
InitTimeout ==
    /\ variant = "sysfs"
    /\ gpioState = "pending"
    /\ now >= Ms(INIT_DELAY_MS)
    /\ \E f \in InitOutcomes :
        IF f = "ok"
        THEN /\ gpioState' = "ready"
             /\ isInitialized' = TRUE
             /\ echoWatcher' = TRUE
             /\ lastValue' = NULL
             /\ trigger' = 0
             /\ status' = St("ready")
        ELSE /\ gpioState' = "failed"
             /\ status' = (IF f = "edge" THEN status ELSE St(f))
             /\ UNCHANGED <<isInitialized, echoWatcher, lastValue, trigger>>
    /\ UNCHANGED <<hvars, variant, now, closed, svars, startupPending, isReading, startTime,
                   timeouts, writeCb, pulseTimers, sensor, sensorStale, msg, cyc>>

-----------------------------------------------------------------------------
\* node.on('close')

\* a measurement is in flight: the trigger pulse has been sent, the echo is awaited
AwaitingEcho ==
    /\ isReading
    /\ writeCb = <<>>
    /\ pulseTimers = <<>>
    /\ trigger = 0

Close ==
    /\ ~closed
    /\ closed' = TRUE
    /\ intervalTimers' = Cleared
    /\ measurementTimer' = NULL
    /\ echoWatcher' = FALSE
    /\ \E ok \in BOOLEAN : trigger' = (IF ok THEN 0 ELSE trigger)
    /\ IF variant = "sysfs"
       THEN /\ isInitialized' = FALSE
            /\ isReading' = FALSE
            /\ cyc' = (IF isReading THEN [cyc EXCEPT !.outcome = "closed"] ELSE cyc)
       ELSE UNCHANGED <<isInitialized, isReading, cyc>>
    /\ status' = St("disconnected")
    /\ inFlightAtClose' = AwaitingEcho
    /\ UNCHANGED <<halted, variant, now, gpioState, lastValue, startupPending, startTime,
                   timeouts, writeCb, pulseTimers, sensor, sensorStale, msg>>

-----------------------------------------------------------------------------
\* The sensor and the echo line

\* the echo line goes high; rpi-gpio reports the change to the listener
SensorRise ==
    /\ sensor = "burst"
    /\ sensor' = "echo"
    /\ sensorStale' = sensorStale
    /\ IF variant = "rpi" /\ echoWatcher
       THEN changeListener(TRUE, sensorStale)
       ELSE UNCHANGED evars
    /\ UNCHANGED <<hvars, variant, now, closed, gvars, lastValue, svars, startupPending,
                   timeouts, writeCb, pulseTimers, trigger>>

\* the echo line goes low
SensorFall ==
    /\ sensor = "echo"
    /\ sensor' = "idle"
    /\ sensorStale' = FALSE
    /\ IF variant = "rpi" /\ echoWatcher
       THEN changeListener(FALSE, sensorStale)
       ELSE UNCHANGED evars
    /\ UNCHANGED <<hvars, variant, now, closed, gvars, lastValue, svars, startupPending,
                   timeouts, writeCb, pulseTimers, trigger>>

\* rpi: a further 'change' event that reports the level the line has (the line
\* bounced faster than rpi-gpio reads it)
EchoBounce ==
    /\ variant = "rpi"
    /\ echoWatcher
    /\ isReading
    /\ changeListener(echoLevel = 1, sensorStale)
    /\ UNCHANGED <<hvars, variant, now, closed, gvars, lastValue, svars, startupPending,
                   timeouts, writeCb, pulseTimers, trigger, sensor, sensorStale>>

\* sysfs: one run of the echoWatcher interval callback
EchoWatcher ==
    /\ variant = "sysfs"
    /\ echoWatcher
    /\ \E readOk \in BOOLEAN : echoWatcherTick(echoLevel, readOk, sensorStale)
    /\ UNCHANGED <<hvars, variant, now, closed, gvars, svars, startupPending,
                   timeouts, writeCb, pulseTimers, trigger, sensor, sensorStale>>

-----------------------------------------------------------------------------
\* The node after construction

Variants == {"rpi", "sysfs"}

Init ==
    /\ variant \in Variants
    /\ now = 0
    /\ closed = FALSE
    /\ gpioState = "pending"
    /\ isInitialized = FALSE
    /\ echoWatcher = FALSE
    /\ lastValue = NULL
    /\ isReading = FALSE
    /\ startTime = NULL
    /\ measurementTimer = NULL
    /\ intervalTimers = {}
    /\ startupPending = TRUE
    /\ timeouts = <<>>
    /\ writeCb = <<>>
    /\ pulseTimers = <<>>
    /\ trigger = 0
    /\ sensor = "idle"
    /\ sensorStale = FALSE
    /\ status = St("none")
    /\ msg = NoMsg
    /\ cyc = NoCycle
    /\ halted = FALSE
    /\ inFlightAtClose = FALSE

Next ==
    \/ Tick
    \/ \E payload \in Payloads : Input(payload)
    \/ IntervalFire
    \/ StartupTimeout
    \/ WriteDone
    \/ PulseTimeout
    \/ SafetyTimeout
    \/ SetupTriggerDone
    \/ SetupEchoDone
    \/ InitTimeout
    \/ Close
    \/ SensorRise
    \/ SensorFall
    \/ EchoBounce
    \/ EchoWatcher

Spec == Init /\ [][Next]_vars

-----------------------------------------------------------------------------
\* Specification with the fairness of the event loop: a due timer callback and
\* a completed gpio call are eventually run, and the clock advances

Fairness ==
    /\ WF_vars(Tick)
    /\ WF_vars(SafetyTimeout)
    /\ WF_vars(PulseTimeout)
    /\ WF_vars(WriteDone)
    /\ WF_vars(StartupTimeout)
    /\ WF_vars(InitTimeout)
    /\ WF_vars(SetupTriggerDone)
    /\ WF_vars(SetupEchoDone)

LiveSpec == Init /\ [][Next]_vars /\ Fairness

-----------------------------------------------------------------------------
\* Vocabulary of the properties

\* a measurement request: a 'trigger'/true command, the initial call made by
\* 'start' or by the start-up timer, or a periodic tick
Request ==
    \/ \E payload \in {"trigger", "true", "start"} : Input(payload)
    \/ IntervalFire
    \/ StartupTimeout

\* the step issues a write of HIGH to the trigger pin or arms a safety timeout
PulseStarted ==
    \/ Len(timeouts') > Len(timeouts)
    \/ trigger = 0 /\ trigger' = 1
    \/ Len(writeCb') > Len(writeCb) /\ writeCb'[Len(writeCb')].level = 1

\* the step is the echo handler seeing a falling edge while a measurement with
\* a recorded startTime is in flight
FallingStep ==
    /\ isReading
    /\ Truthy(startTime)
    /\ echoWatcher
    /\ \/ variant = "rpi" /\ SensorFall
       \/ variant = "rpi" /\ echoLevel = 0 /\ EchoBounce
       \/ variant = "sysfs" /\ lastValue = 1 /\ echoLevel = 0 /\ lastValue' = 0 /\ EchoWatcher

\* the pulse width the handler measures in a FallingStep, in microseconds
PulseWidth == hrtime - startTime

\* the safety timeout of the cycle started last has had its 100 ms
Expired == cyc.start # NULL /\ now > cyc.start + Ms(SAFETY_TIMEOUT_MS)

-----------------------------------------------------------------------------
\* C1: a measurement request (periodic tick, 'trigger'/true command, initial
\* call of 'start' or of the start-up timer) that arrives while isReading is
\* true is a no-op: no trigger write, no new safety timeout, isReading and
\* startTime unchanged; and a trigger pulse is started only when isReading is
\* false.
C1_BusyRequestIsNoOp ==
    [][ /\ (isReading /\ Request) =>
              UNCHANGED <<isReading, startTime, timeouts, writeCb, pulseTimers, trigger, cyc>>
        /\ PulseStarted => ~isReading ]_vars

\* a cycle has been in flight for a while with a periodic timer armed, so
\* periodic requests arrive during it
C1_Witness ==
    /\ isReading
    /\ intervalTimers # {}
    /\ ~closed
    /\ now > cyc.start
    /\ timeouts # <<>>

-----------------------------------------------------------------------------
\* C2 as stated: if a cycle is started and a rising edge is observed but no
\* falling edge follows within 100 ms of the cycle's start, then exactly one
\* "timeout" status is signalled for that cycle, no Reading is sent for it, and
\* isReading is false afterwards.
C2_TimeoutAfterRise_AsStated ==
    (Expired /\ cyc.firstRise # NULL /\ cyc.outcome \notin {"reading", "oor"}) =>
        (cyc.timeouts = 1 /\ cyc.sent = 0 /\ ~isReading)

\* C2 amended: the same, for a cycle that is not ended first by a failed write
\* to the trigger pin (rpi variant) or by closing the node (sysfs variant).
C2_TimeoutAfterRise ==
    (Expired /\ cyc.firstRise # NULL /\ cyc.outcome \notin {"reading", "oor", "ioerr", "closed"}) =>
        (cyc.timeouts = 1 /\ cyc.sent = 0 /\ ~isReading /\ cyc.outcome = "timeout")

\* a cycle saw its rising edge, no falling edge, and was ended by the timeout
C2_Witness ==
    /\ Expired
    /\ cyc.firstRise # NULL
    /\ cyc.outcome = "timeout"
    /\ cyc.timeouts = 1
    /\ sensor = "echo"
    /\ ~isReading

-----------------------------------------------------------------------------
\* C3: every started cycle eventually ends: whenever isReading is true it
\* eventually becomes false, also when no echo edge ever arrives, given that
\* armed timers eventually fire.
C3_CycleEnds == isReading ~> ~isReading

\* a cycle that saw no echo edge at all was ended by the timeout
C3_Witness ==
    /\ cyc.outcome = "timeout"
    /\ cyc.firstRise = NULL
    /\ sensor = "burst"
    /\ ~isReading

-----------------------------------------------------------------------------
\* C4: a cycle starts with startTime cleared, so a startTime that is set while
\* a measurement is in flight, and the one a Reading or out-of-range result is
\* computed from, was recorded by a rising edge seen after the start of the
\* same cycle.
C4_NoResidualStartTime ==
    /\ (isReading /\ Truthy(startTime)) =>
          (cyc.firstRise # NULL /\ startTime >= cyc.firstRise /\ cyc.firstRise > cyc.start)
    /\ cyc.outcome \in {"reading", "oor"} =>
          (cyc.firstRise # NULL /\ startTime >= cyc.firstRise /\ cyc.firstRise > cyc.start
           /\ cyc.dur >= 0)

\* a cycle is in flight with startTime cleared after an earlier cycle sent a
\* Reading, and a cycle following an earlier Reading has produced its own result
C4_Witness ==
    /\ isReading
    /\ startTime = NULL
    /\ msg.payload # NULL
    /\ status.text = "cm"

-----------------------------------------------------------------------------
\* C5: an echo edge that answers the trigger pulse of one cycle is never
\* consumed in a later cycle: it never sets the startTime a later cycle
\* measures from.
C5_NoStaleEdgeConsumed == ~cyc.stale

-----------------------------------------------------------------------------
\* C6: for every falling edge that closes a measurement whose pulse width d
\* (microseconds) has 2 <= d/2/29.1 <= 400, exactly one message is sent, with
\* payload d/2/29.1 rounded to 2 decimals (here in hundredths: the integer p
\* nearest to 100 * d / 58.2), topic "distance" and unit "cm"; a "<value> cm"
\* status is signalled and isReading becomes false.
C6_ReadingValue ==
    [][ (FallingStep /\ 10 * PulseWidth >= 2 * 582 /\ 10 * PulseWidth <= 400 * 582) =>
            /\ cyc'.sent = cyc.sent + 1
            /\ msg'.topic = "distance"
            /\ msg'.unit = "cm"
            /\ 2 * (291 * msg'.payload - 500 * PulseWidth) <= 291
            /\ 2 * (500 * PulseWidth - 291 * msg'.payload) <= 291
            /\ status' = [text |-> "cm", value |-> msg'.payload]
            /\ ~isReading' ]_vars

\* the 1160 microsecond pulse of the scenario has produced the payload 19.93
C6_Witness ==
    /\ cyc.outcome = "reading"
    /\ cyc.dur = 1160
    /\ cyc.sent = 1
    /\ msg = [payload |-> 1993, topic |-> "distance", unit |-> "cm"]
    /\ ~isReading

-----------------------------------------------------------------------------
\* C7: for every falling edge that closes a measurement whose computed distance
\* d/2/29.1 is below 2 or above 400, no Reading is sent, an "out of range"
\* status is signalled, and the sensor is idle again, so that the next request
\* starts a new cycle.
C7_OutOfRange ==
    [][ (FallingStep /\ (10 * PulseWidth < 2 * 582 \/ 10 * PulseWidth > 400 * 582)) =>
            /\ cyc'.sent = cyc.sent
            /\ msg' = msg
            /\ status' = St("out of range")
            /\ ~isReading'
            /\ ~busy' ]_vars

\* the 30 microsecond pulse of the scenario has ended out of range
C7_Witness ==
    /\ cyc.outcome = "oor"
    /\ cyc.dur = 30
    /\ cyc.sent = 0
    /\ status = St("out of range")
    /\ ~isReading

-----------------------------------------------------------------------------
\* C8: at most one Reading is sent per started cycle, whatever the sequence of
\* echo edges and however they interleave with the timeout.
C8_AtMostOneReading == cyc.sent <= 1

\* a Reading was sent, and the cycle's safety timeout has fired since
C8_Witness ==
    /\ cyc.sent = 1
    /\ Expired
    /\ timeouts = <<>>

-----------------------------------------------------------------------------
\* C9: within one cycle the first rising edge seen after the trigger is
\* authoritative: while the measurement is in flight startTime is the time of
\* the first rising edge, and further rising edges do not change it.
C9_FirstRisingEdgeWins ==
    (isReading /\ Truthy(startTime)) => startTime = cyc.firstRise

-----------------------------------------------------------------------------
\* C10: after any sequence of 'start' and 'stop' commands, issued at any time
\* after construction, at most one periodic interval timer is armed.
C10_OneIntervalTimer == Cardinality(intervalTimers) <= 1

-----------------------------------------------------------------------------
\* C11: a 'stop' command halts periodic scheduling: once 'stop' has been
\* handled, at any time after construction, no periodic measurement request
\* (no callback of an interval timer) is made until a 'start' command is handled.
C11_StopHaltsPeriodic == [][halted => ~IntervalFire]_vars

-----------------------------------------------------------------------------
\* C12: in each variant, when the node is closed while a measurement is in
\* flight (trigger pulse sent, echo awaited), no Reading and no status other
\* than the close handler's "disconnected" is emitted afterwards, neither by a
\* later echo edge nor by the pending 100 ms timeout, and the trigger line
\* stays low.
C12_CloseInFlightIsSilent ==
    [][ (closed /\ inFlightAtClose) =>
            (status' = status /\ msg' = msg /\ trigger' = 0) ]_vars

-----------------------------------------------------------------------------
\* C13: in each variant, after the node is closed, at any time after
\* construction (also before the 100 ms start-up and initialisation delays have
\* elapsed), periodic scheduling is stopped for good: no interval timer remains
\* or becomes armed, no trigger pulse is started, and no status is signalled
\* after "disconnected".
C13_CloseStopsScheduling ==
    [][ /\ closed' => intervalTimers' = {}
        /\ closed => (~PulseStarted /\ status' = status) ]_vars

-----------------------------------------------------------------------------
\* the step is the handler that learns that a write to the trigger pin failed:
\* rpi, the callback of gpio.write called with an error; sysfs, writeGpio
\* returning false in triggerMeasurement (HIGH) or in the pulse timer (LOW)
WriteFailed ==
    \/ variant = "rpi" /\ writeCb # <<>> /\ ~Head(writeCb).ok /\ WriteDone
    \/ variant = "sysfs" /\ ~busy /\ Request /\ cyc'.outcome = "ioerr"
    \/ variant = "sysfs" /\ trigger = 1 /\ trigger' = 1 /\ PulseTimeout

\* C14: a failure of either trigger-pin write of the pulse (HIGH or LOW) aborts
\* the current cycle only: the sensor is Idle at once, without waiting for the
\* timeout, no Reading is sent for that cycle, and a later request starts a new
\* cycle.
C14_WriteFailureAbortsCycle ==
    [][ /\ (~closed /\ WriteFailed) => (~isReading' /\ ~busy' /\ msg' = msg)
        /\ cyc'.outcome = "ioerr" => cyc'.sent = 0 ]_vars

-----------------------------------------------------------------------------
\* C15: if reserving or configuring the trigger or the echo pin fails during
\* initialisation, the sensor stays non-operational: until shutdown no trigger
\* pulse is written by any periodic tick or command, no Reading is sent, and
\* the error status signalled at the failure is not replaced by a later status.
C15_InitFailureIsTerminal ==
    [][ (gpioState = "failed" /\ ~closed') =>
            (~PulseStarted /\ msg' = msg /\ status' = status) ]_vars

-----------------------------------------------------------------------------
\* the step returns the sensor to Idle: a handler other than close ends the
\* cycle in flight, or triggerMeasurement gives up on the cycle it has just
\* started (sysfs: the write of HIGH fails)
CycleEnds ==
    \/ isReading /\ ~isReading' /\ closed' = closed
    \/ variant = "sysfs" /\ ~busy /\ Request /\ cyc'.outcome = "ioerr"

\* the status the node signals for each way a cycle ends; for a failed trigger
\* it is the one of the catch block of triggerMeasurement
OutcomeStatus(c) ==
    CASE c.outcome = "reading" -> [text |-> "cm", value |-> toFixed2(c.dur)]
      [] c.outcome = "oor"     -> St("out of range")
      [] c.outcome = "timeout" -> St("timeout")
      [] OTHER                 -> St("trigger failed")

\* C16: every way a started cycle can end (valid reading, out of range,
\* timeout, trigger-write failure) signals a status at the moment the sensor
\* returns to Idle, so that the status describes the outcome of the cycle that
\* has just ended.
C16_EveryEndSignalsStatus ==
    [][ CycleEnds => status' = OutcomeStatus(cyc') ]_vars

-----------------------------------------------------------------------------
\* the payloads the input handler does not name
Unrecognized == Payloads \ {"trigger", "true", "start", "stop"}

\* C17: an input message whose payload is none of 'trigger', true, 'start',
\* 'stop' is ignored: it leaves isReading, startTime, the periodic timer, the
\* trigger line (and the pending writes and timers of the pulse) and the status
\* unchanged and sends no message.
C17_UnknownPayloadIgnored ==
    [][ (\E payload \in Unrecognized : Input(payload)) =>
            UNCHANGED <<isReading, startTime, measurementTimer, intervalTimers, trigger,
                        writeCb, pulseTimers, timeouts, status, msg>> ]_vars

\* the node is open, idle and scheduled, with a result on display: a state in
\* which each recognised command would act, and in which unrecognised
\* payloads are handled
C17_Witness ==
    /\ ~closed
    /\ ~busy
    /\ Room
    /\ gpioState = "ready"
    /\ measurementTimer # NULL
    /\ status.text = "cm"
    /\ ENABLED (\E payload \in Unrecognized : Input(payload))

-----------------------------------------------------------------------------
\* C18: the 100 ms timeout armed by a cycle acts on that cycle only: a cycle is
\* forced to Idle with a "timeout" status only when 100 ms have elapsed since
\* its own start, never by the still-pending timer of an earlier cycle.
C18_TimeoutActsOnOwnCycle ==
    cyc.outcome = "timeout" => now >= cyc.start + Ms(SAFETY_TIMEOUT_MS)

-----------------------------------------------------------------------------
\* the trigger pulse of the cycle in flight is not complete: its write of HIGH
\* is still to call back, or its pulse-width timer is still to write LOW
Triggering ==
    /\ isReading
    /\ \/ \E i \in DOMAIN writeCb : writeCb[i].level = 1
       \/ \E i \in DOMAIN pulseTimers : pulseTimers[i] = cyc.start + Ms(PULSE_DELAY_MS)

\* the step is a run of the echo handler
EchoStep ==
    \/ variant = "rpi" /\ echoWatcher /\ (SensorRise \/ SensorFall \/ EchoBounce)
    \/ variant = "sysfs" /\ EchoWatcher

\* C19: echo edges are consumed only after the trigger pulse is complete: an
\* echo edge observed between the write HIGH and the write LOW of a cycle does
\* not set startTime and does not end the cycle.
C19_NoEdgeDuringPulse ==
    [][ (Triggering /\ EchoStep) => (startTime' = startTime /\ isReading' = isReading) ]_vars

-----------------------------------------------------------------------------
\* the cycle has been concluded by the edge handler or by the timeout handler
Concluded(c) == c.outcome \in {"reading", "oor", "timeout"}

\* the step starts a cycle
NewCycle ==
    /\ ~busy
    /\ cyc'.start = now
    /\ cyc'.outcome \in {"none", "ioerr"}
    /\ cyc'.firstRise = NULL
    /\ cyc'.sent = 0
    /\ cyc'.timeouts = 0

\* C20: edge handling and the timeout handler never both conclude the same
\* cycle: under every interleaving of the falling-edge callback and the 100 ms
\* timer a started cycle ends with at most one outcome (a Reading, an
\* out-of-range status or a timeout status); a handler that concludes a cycle
\* leaves the sensor Idle, and a concluded cycle is not concluded again.
C20_OneOutcomePerCycle ==
    [][ /\ (~Concluded(cyc) /\ Concluded(cyc')) => ~isReading'
        /\ Concluded(cyc) => (cyc' = cyc \/ NewCycle)
        /\ cyc'.sent + cyc'.timeouts <= 1 ]_vars

\* a falling edge concluded the cycle out of range, and the cycle's safety
\* timeout has fired since without concluding it again
C20_Witness ==
    /\ cyc.outcome = "oor"
    /\ cyc.timeouts = 0
    /\ cyc.sent = 0
    /\ Expired
    /\ timeouts = <<>>
    /\ ~isReading

-----------------------------------------------------------------------------
\* the step starts a cycle whose write of HIGH to the trigger pin succeeds
HighWritten ==
    /\ NewCycle
    /\ IF variant = "rpi"
       THEN /\ Len(writeCb') = Len(writeCb) + 1
            /\ writeCb'[Len(writeCb')] = [level |-> 1, ok |-> TRUE]
       ELSE isReading'

\* a successful write of HIGH has not been followed by its write of LOW yet:
\* its callback or its pulse-width timer is pending
PulseOpen ==
    \/ pulseTimers # <<>>
    \/ \E i \in DOMAIN writeCb : writeCb[i] = [level |-> 1, ok |-> TRUE]

\* C21: trigger pulses are well formed and never overlap: every successful
\* write of HIGH to the trigger pin is followed by a write of LOW before the
\* next write of HIGH is issued, for every interleaving of the write callbacks,
\* the pulse-width timer, echo edges and measurement requests.
C21_PulsesDoNotOverlap == [][ HighWritten => ~PulseOpen ]_vars

====
